---- MODULE Spec2Model ----
(***************************************************************************)
(* A model of scparser: Parse, the symbol index built by initialize, the   *)
(* depth-bounded call-graph walk (processFunction and                      *)
(* processUnderlyingFunctions) and the document assembled by toString.     *)
(*                                                                         *)
(* A function signature, a pointer in the code, is an integer; a package is *)
(* its import path, a sequence of segments; and the source text of a       *)
(* function is the function's signature: functions[pkg] is the sequence of *)
(* the sources appended to the package, in order.                          *)
(***************************************************************************)
EXTENDS Integers, Sequences, FiniteSets

VARIABLES
  mod,       \* the module on disk: functions, call sites, packages, go.mod
  funcName,  \* the entry point's name the caller asks for
  p,         \* the parser struct
  stack,     \* the Go call stack of processFunction / processUnderlyingFunctions
  pc,        \* where Parse is: idle, init, walk, ret, unwind, returned, panicked
  args,      \* Parse's excludeRoot and codeOnly
  root,      \* the first processFunction call: [sig, depth]
  cwd,       \* the process working directory
  curDir,    \* changeDir's captured curDir
  deferred,  \* whether changeBack is deferred
  doc,       \* what Parse returns
  hist       \* history: order of extraction, depth at each visit, expanded functions,
             \* the documents returned so far, the working directory at the call

vars == <<mod, funcName, p, stack, pc, args, root, cwd, curDir, deferred, doc, hist>>

----------------------------------------------------------------------------
(* Bounds of the model. *)

\* SpecWalk: functions 0..NumFuncs-1, at most MaxCallSites call sites in all,
\* depth budgets 0..MaxDepth.
NumFuncs == 4
MaxCallSites == 4
MaxDepth == 3
\* Spec: a chain of calls 0 -> 1 -> ... -> ChainLen, plus at most one more call site.
ChainLen == 5

----------------------------------------------------------------------------
(* Values. *)

\* p.processFunction(funcSig, 5) and p.processFunction(funcSig, 6)
IncludedRootDepth == 5
ExcludedRootDepth == 6

\* A nil signature, and the target of a call site that resolves to no
\* function signature.
NoSig == -1

P0 == <<"m">>
P1 == <<"m", "a">>
P2 == <<"m", "b">>
PX == <<"fmt">>

\* go.mod, line by line, each line split into fields (strings.Fields). A field is
\* written as a path: a sequence of segments.
GoMod ==
  << << <<"module">>, <<"m">> >>,
     << >>,
     << <<"go">>, <<"1.20">> >>,
     << <<"require">>, <<"(">> >>,
     << <<"dep">>, <<"v1">> >>,
     << <<")">> >> >>

HomeDir == "home"
ModDir == "mod"

Range(s) == {s[i] : i \in 1..Len(s)}

Last(s) == s[Len(s)]

IsPrefix(s, t) == Len(s) <= Len(t) /\ \A i \in 1..Len(s) : s[i] = t[i]

----------------------------------------------------------------------------
(* Building the symbol index. *)

RECURSIVE goModPathsFrom(_, _)
goModPathsFrom(lines, i) ==
  IF i > Len(lines) THEN <<>>
  ELSE LET fields == lines[i]
           rest == goModPathsFrom(lines, i + 1)
       IN IF Len(fields) > 0
          THEN LET pkg == IF fields[1] = <<"module">> \/ fields[1] = <<"require">>
                          THEN fields[2] ELSE fields[1]
               IN IF pkg \notin {<<>>, <<")">>, <<"(">>, <<"require">>, <<"go">>}
                  THEN <<pkg>> \o rest
                  ELSE rest
          ELSE rest

parseGoModFile == goModPathsFrom(mod.gomod, 1)

\* pkgPath == path || strings.HasPrefix(pkgPath, path+"/")
isGoModPkg(goModPaths, pkgPath) ==
  \E i \in 1..Len(goModPaths) :
    \/ pkgPath = goModPaths[i]
    \/ Len(pkgPath) > Len(goModPaths[i]) /\ IsPrefix(goModPaths[i], pkgPath)

\* packages.Load(..., "..."): every package that holds a Go file, whether of the
\* module or not.
loadPackages ==
  SelectSeq(<<PX, P2, P0, P1>>, LAMBDA pkg : \E f \in mod.funcs : mod.pkgOf[f] = pkg)

\* The functions declared in pkg named name, in declaration order.
DeclaredIn(pkg) == {f \in mod.funcs : mod.pkgOf[f] = pkg}

Max(S) == CHOOSE x \in S : \A y \in S : y <= x

RECURSIVE scanPackages(_, _, _, _, _)
scanPackages(pkgs, i, goModPaths, name, acc) ==
  IF i > Len(pkgs) \/ acc.panic THEN acc
  ELSE LET pkg == pkgs[i] IN
       IF ~isGoModPkg(goModPaths, pkg)
       THEN scanPackages(pkgs, i + 1, goModPaths, name, acc)
       ELSE LET named == {f \in DeclaredIn(pkg) : mod.name[f] = name}
                sig == IF pkg = goModPaths[1] /\ named # {} THEN Max(named) ELSE acc.funcSig
                next == [funcSig |-> sig,
                         indexed |-> acc.indexed \cup DeclaredIn(pkg),
                         panic   |-> pkg = goModPaths[1] /\ sig = NoSig]
            IN scanPackages(pkgs, i + 1, goModPaths, name, next)

initialize(name) ==
  LET r == scanPackages(loadPackages, 1, parseGoModFile, name,
                        [funcSig |-> NoSig, indexed |-> {}, panic |-> FALSE])
  IN [funcSig |-> r.funcSig,
      funcToFileAndPkg |-> [f \in r.indexed |-> mod.pkgOf[f]],
      panic |-> r.panic]

newParser(funcToFileAndPkg) ==
  [funcToFileAndPkg |-> funcToFileAndPkg,
   functions |-> <<>>,
   pkgOrder  |-> <<>>,
   seen      |-> {}]

----------------------------------------------------------------------------
(* The call-graph walk. *)

Top == stack[Len(stack)]

Pop == SubSeq(stack, 1, Len(stack) - 1)

ReplaceTop(fr) == Append(Pop, fr)

Frame(sig, depth, at) == [sig |-> sig, depth |-> depth, at |-> at]

\* a walk without the early return on p.seen
AlreadySeenNever(sig) == FALSE

\* if p.seen[funcSig] { return }
AlreadySeen(sig) == sig \in p.seen

\* f, ok := p.funcToFileAndPkg[funcSig]
Indexed(sig) == sig \in DOMAIN p.funcToFileAndPkg

\* the depth handed on without the decrement
UnderlyingDepthKept(depth) == depth

\* p.processUnderlyingFunctions(f.pkg, fn, depth-1)
UnderlyingDepth(depth) == depth - 1

\* the depth test off by one: depth < 0 in place of depth <= 0
ExpandsCalleesAtZero(sig, depth) == depth >= 0 /\ sig \in mod.body

\* processUnderlyingFunctions goes on to the body's call sites
ExpandsCallees(sig, depth) == depth > 0 /\ sig \in mod.body

\* the package appended to pkgOrder whether or not it has an entry in functions
RegisterPkgAlways(pkgOrder, functions, pkg) == Append(pkgOrder, pkg)

\* if _, ok := p.functions[f.pkg]; !ok { p.pkgOrder = append(p.pkgOrder, f.pkg) }
RegisterPkg(pkgOrder, functions, pkg) ==
  IF pkg \in DOMAIN functions THEN pkgOrder ELSE Append(pkgOrder, pkg)

\* p.functions[f.pkg] += "\n" + funcSrc
AppendSource(functions, pkg, sig) ==
  [k \in DOMAIN functions \cup {pkg} |->
     IF k = pkg
     THEN (IF pkg \in DOMAIN functions THEN functions[pkg] ELSE <<>>) \o <<sig>>
     ELSE functions[k]]

\* processFunction returns at once: the signature was processed before
ProcessFunctionSeen ==
  /\ pc = "walk" /\ stack # <<>>
  /\ Top.at = 0
  /\ AlreadySeen(Top.sig)
  /\ stack' = Pop
  /\ UNCHANGED <<mod, funcName, p, pc, args, root, cwd, curDir, deferred, doc, hist>>

\* processFunction returns at once: the signature is not in the index
ProcessFunctionNotIndexed ==
  /\ pc = "walk" /\ stack # <<>>
  /\ Top.at = 0
  /\ ~AlreadySeen(Top.sig)
  /\ ~Indexed(Top.sig)
  /\ stack' = Pop
  /\ UNCHANGED <<mod, funcName, p, pc, args, root, cwd, curDir, deferred, doc, hist>>

\* processFunction finds the declaration, appends its source, marks it seen and
\* calls processUnderlyingFunctions, which returns at once or starts on the
\* body's call sites
ProcessFunctionExtract ==
  /\ pc = "walk" /\ stack # <<>>
  /\ Top.at = 0
  /\ ~AlreadySeen(Top.sig)
  /\ Indexed(Top.sig)
  /\ LET sig == Top.sig
         pkg == p.funcToFileAndPkg[sig]
         depth == UnderlyingDepth(Top.depth)
         expands == ExpandsCallees(sig, depth)
     IN /\ p' = [p EXCEPT !.pkgOrder = RegisterPkg(p.pkgOrder, p.functions, pkg),
                          !.functions = AppendSource(p.functions, pkg, sig),
                          !.seen = @ \cup {sig}]
        /\ stack' = IF expands THEN ReplaceTop(Frame(sig, depth, 1)) ELSE Pop
        /\ hist' = [hist EXCEPT !.order = Append(@, sig),
                                !.depthAt = @ \cup {<<sig, Top.depth>>},
                                !.expanded = IF expands THEN @ \cup {sig} ELSE @]
  /\ UNCHANGED <<mod, funcName, pc, args, root, cwd, curDir, deferred, doc>>

\* a walk over the body that never moves past a call site
AfterCallSiteStuck(fr) == fr

\* the frame after the call site at fr.at has been inspected
AfterCallSite(fr) == Frame(fr.sig, fr.depth, fr.at + 1)

\* ast.Inspect reaches the next call expression of the body: a call that resolves
\* to a signature is processed with the same depth, any other is passed over
VisitCallSite ==
  /\ pc = "walk" /\ stack # <<>>
  /\ Top.at >= 1
  /\ Top.at <= Len(mod.calls[Top.sig])
  /\ LET callee == mod.calls[Top.sig][Top.at] IN
       stack' = IF callee = NoSig
                THEN ReplaceTop(AfterCallSite(Top))
                ELSE Append(ReplaceTop(AfterCallSite(Top)), Frame(callee, Top.depth, 0))
  /\ UNCHANGED <<mod, funcName, p, pc, args, root, cwd, curDir, deferred, doc, hist>>

\* ast.Inspect has walked the whole body: processUnderlyingFunctions and the
\* processFunction that called it return
ReturnFromBody ==
  /\ pc = "walk" /\ stack # <<>>
  /\ Top.at >= 1
  /\ Top.at > Len(mod.calls[Top.sig])
  /\ stack' = Pop
  /\ UNCHANGED <<mod, funcName, p, pc, args, root, cwd, curDir, deferred, doc, hist>>

WalkNext ==
  \/ ProcessFunctionSeen
  \/ ProcessFunctionNotIndexed
  \/ ProcessFunctionExtract
  \/ VisitCallSite
  \/ ReturnFromBody

----------------------------------------------------------------------------
(* The modules SpecWalk starts from. *)

Funcs == 0..(NumFuncs - 1)

NonDecreasing(s) == \A i \in 1..(Len(s) - 1) : s[i] <= s[i + 1]

\* The functions are numbered in the order the call lists, read caller by caller
\* from the entry point 0, first name them (breadth-first numbering): every caller
\* is the entry point or was called before, and a callee not called before takes
\* the next number. Functions the entry point does not reach have no call sites.
BreadthFirstNumbered(callers, callees) ==
  \A i \in 1..Len(callers) :
    LET known == Max({0} \cup {callees[j] : j \in 1..(i - 1)})
    IN callers[i] <= known /\ callees[i] <= known + 1

\* The call sites of a module as one list ordered by caller: call site i is a call
\* of callees[i] in the body of callers[i].
CallsOf(callers, callees, f) ==
  LET at == {i \in 1..Len(callers) : callers[i] = f}
      first == CHOOSE i \in at : \A k \in at : i <= k
  IN [j \in 1..Cardinality(at) |-> callees[first + j - 1]]

RoundRobin(pkgs, f) == pkgs[(f % Len(pkgs)) + 1]

\* The last function is an ordinary one, one outside the module (not indexed), or
\* one declared without a body.
WalkModule(callers, callees, lastKind) ==
  [funcs |-> Funcs,
   calls |-> [f \in Funcs |-> CallsOf(callers, callees, f)],
   body  |-> IF lastKind = "nobody" THEN Funcs \ {NumFuncs - 1} ELSE Funcs,
   pkgOf |-> [f \in Funcs |-> IF lastKind = "external" /\ f = NumFuncs - 1
                              THEN PX ELSE RoundRobin(<<P0, P1, P2>>, f)],
   name  |-> [f \in Funcs |-> IF f = 0 THEN "F" ELSE "H"],
   gomod |-> GoMod]

NoHist ==
  [order |-> <<>>, depthAt |-> {}, expanded |-> {},    \* of the walk in progress
   docs |-> {},                                         \* the documents Parse returned
   callDir |-> HomeDir,                                 \* the working directory at the call
   changed |-> FALSE,                                   \* changeDir changed the directory
   restore |-> "none",                                  \* changeBack: none, ok, failed
   err |-> ""]                                          \* the failure Parse panicked with

InitWalk ==
  /\ \E k \in 0..MaxCallSites :
       \E callers \in [1..k -> Funcs] :
         /\ NonDecreasing(callers)
         /\ \E callees \in [1..k -> Funcs] :
              /\ BreadthFirstNumbered(callers, callees)
              /\ \E lastKind \in {"plain", "external", "nobody"} :
                   /\ lastKind = "plain" \/ \A i \in 1..k : callers[i] # NumFuncs - 1
                   /\ mod = WalkModule(callers, callees, lastKind)
  /\ funcName = "F"
  /\ p = newParser(initialize(funcName).funcToFileAndPkg)
  /\ \E n \in 0..MaxDepth :
       /\ root = [sig |-> 0, depth |-> n]
       /\ stack = <<Frame(0, n, 0)>>
  /\ pc = "walk"
  /\ args = [excludeRoot |-> FALSE, codeOnly |-> FALSE]
  /\ cwd = ModDir
  /\ curDir = HomeDir
  /\ deferred = TRUE
  /\ doc = <<>>
  /\ hist = [NoHist EXCEPT !.changed = TRUE]

SpecWalk == InitWalk /\ [][WalkNext]_vars

FairWalk == SpecWalk /\ WF_vars(WalkNext)

----------------------------------------------------------------------------
(* The document. A document is a sequence of pieces: a package header (a plain *)
(* line, or a comment line under codeOnly), a package's functions (fenced, or  *)
(* bare under codeOnly), a line break and a blank line.                        *)

Piece(kind, name, src) == [kind |-> kind, name |-> name, src |-> src]

NewLine == Piece("nl", "", <<>>)

BlankLine == Piece("blank", "", <<>>)

formatPkg(pkgName, codeOnly) ==
  IF codeOnly THEN Piece("comment", pkgName, <<>>) ELSE Piece("line", pkgName, <<>>)

formatFunctions(functions, codeOnly) ==
  IF codeOnly THEN Piece("code", "", functions) ELSE Piece("fenced", "", functions)

\* pkg.Name: the last segment of the import path
PkgName(pkg) == Last(pkg)

\* a header before every package but the first, whatever excludeRoot is
HasHeaderAfterFirst(k, excludeRoot) == k >= 1

\* if k > 1 || (k == 1 && !excludeRoot)
HasHeader(k, excludeRoot) == k > 1 \/ (k = 1 /\ ~excludeRoot)

\* if k == 0 && excludeRoot { continue }
SkipsBlock(k, excludeRoot) == k = 0 /\ excludeRoot

\* the loop of toString from index k (0-based, as in the code) on
RECURSIVE toStringFrom(_, _, _)
toStringFrom(k, excludeRoot, codeOnly) ==
  IF k >= Len(p.pkgOrder) THEN <<>>
  ELSE LET pkg == p.pkgOrder[k + 1]
           header == IF HasHeader(k, excludeRoot)
                     THEN <<formatPkg(PkgName(pkg), codeOnly), NewLine>> ELSE <<>>
           block == <<formatFunctions(p.functions[pkg], codeOnly)>>
           sep == IF k < Len(p.pkgOrder) - 1 THEN <<BlankLine>> ELSE <<>>
       IN (IF SkipsBlock(k, excludeRoot) THEN <<>> ELSE header \o block \o sep)
          \o toStringFrom(k + 1, excludeRoot, codeOnly)

toString(excludeRoot, codeOnly) == toStringFrom(0, excludeRoot, codeOnly)

----------------------------------------------------------------------------
(* Parse. *)

\* both modes walk with the budget of excludeRoot
RootDepthAlwaysExcluded(excludeRoot) == ExcludedRootDepth

\* if excludeRoot { p.processFunction(funcSig, 6) } else { p.processFunction(funcSig, 5) }
RootDepth(excludeRoot) == IF excludeRoot THEN ExcludedRootDepth ELSE IncludedRootDepth

\* changeBack called at the normal return only, not deferred
RestoreRunsOnReturnOnly == deferred /\ pc = "ret"

\* defer changeBack(): once deferred, changeBack runs when Parse returns or panics
RestoreRuns == deferred

\* The caller asks for each value of excludeRoot at most once.
NotYetAsked(excludeRoot) == \A d \in hist.docs : d.excludeRoot # excludeRoot

\* Parse is called; changeDir reads the working directory and changes it to
\* funcPkgPath; changeBack is deferred
ParseChangeDir ==
  /\ pc \in {"idle", "returned"}
  /\ \E excludeRoot, codeOnly \in BOOLEAN :
       /\ NotYetAsked(excludeRoot)
       /\ args' = [excludeRoot |-> excludeRoot, codeOnly |-> codeOnly]
  /\ curDir' = cwd
  /\ cwd' = ModDir
  /\ deferred' = TRUE
  /\ pc' = "init"
  /\ doc' = <<>>
  /\ hist' = [hist EXCEPT !.callDir = cwd, !.changed = TRUE, !.restore = "none", !.err = ""]
  /\ UNCHANGED <<mod, funcName, p, stack, root>>

\* Parse is called; os.Getwd or os.Chdir fails and changeDir panics, before
\* anything is deferred
ParseChangeDirFails ==
  /\ pc \in {"idle", "returned"}
  /\ \E excludeRoot, codeOnly \in BOOLEAN :
       /\ NotYetAsked(excludeRoot)
       /\ args' = [excludeRoot |-> excludeRoot, codeOnly |-> codeOnly]
  /\ deferred' = FALSE
  /\ pc' = "unwind"
  /\ doc' = <<>>
  /\ hist' = [hist EXCEPT !.callDir = cwd, !.changed = FALSE, !.restore = "none",
                          !.err = "WorkingDirectoryFailure"]
  /\ UNCHANGED <<mod, funcName, p, stack, root, cwd, curDir>>

\* initialize panics: go.mod cannot be read, or packages.Load fails
InitializeLoadFails ==
  /\ pc = "init"
  /\ pc' = "unwind"
  /\ \E e \in {"ManifestUnreadable", "PackageLoadFailure"} : hist' = [hist EXCEPT !.err = e]
  /\ UNCHANGED <<mod, funcName, p, stack, args, root, cwd, curDir, deferred, doc>>

\* initialize panics: the primary package was scanned and holds no function named
\* funcName
InitializeNotFound ==
  /\ pc = "init"
  /\ initialize(funcName).panic
  /\ pc' = "unwind"
  /\ hist' = [hist EXCEPT !.err = "EntryPointNotFound"]
  /\ UNCHANGED <<mod, funcName, p, stack, args, root, cwd, curDir, deferred, doc>>

\* initialize returns; newParser; the first processFunction call
InitializeAndStart ==
  /\ pc = "init"
  /\ LET r == initialize(funcName) IN
       /\ ~r.panic
       /\ p' = newParser(r.funcToFileAndPkg)
       /\ root' = [sig |-> r.funcSig, depth |-> RootDepth(args.excludeRoot)]
       /\ stack' = <<Frame(r.funcSig, RootDepth(args.excludeRoot), 0)>>
  /\ pc' = "walk"
  /\ hist' = [hist EXCEPT !.order = <<>>, !.depthAt = {}, !.expanded = {}]
  /\ UNCHANGED <<mod, funcName, args, cwd, curDir, deferred, doc>>

\* processFunction finds the declaration and extractSourceCode cannot read the
\* file: panic(err)
ExtractFails ==
  /\ pc = "walk" /\ stack # <<>>
  /\ Top.at = 0
  /\ ~AlreadySeen(Top.sig)
  /\ Indexed(Top.sig)
  /\ pc' = "unwind"
  /\ stack' = <<>>
  /\ hist' = [hist EXCEPT !.err = "SourceReadFailure"]
  /\ UNCHANGED <<mod, funcName, p, args, root, cwd, curDir, deferred, doc>>

\* return p.toString(excludeRoot, codeOnly): the result is computed
ParseToString ==
  /\ pc = "walk" /\ stack = <<>>
  /\ doc' = toString(args.excludeRoot, args.codeOnly)
  /\ pc' = "ret"
  /\ UNCHANGED <<mod, funcName, p, stack, args, root, cwd, curDir, deferred, hist>>

Returned(d) == [excludeRoot |-> args.excludeRoot, codeOnly |-> args.codeOnly, doc |-> d]

\* the deferred changeBack runs, on the return or on the panic: os.Chdir(curDir)
\* succeeds, or fails and changeBack panics
ChangeBack ==
  /\ pc \in {"ret", "unwind"}
  /\ RestoreRuns
  /\ \E ok \in BOOLEAN :
       /\ cwd' = IF ok THEN curDir ELSE cwd
       /\ pc' = IF ok /\ pc = "ret" THEN "returned" ELSE "panicked"
       /\ hist' = [hist EXCEPT !.restore = IF ok THEN "ok" ELSE "failed",
                               !.err = IF ok THEN @ ELSE "WorkingDirectoryFailure",
                               !.docs = IF ok /\ pc = "ret" THEN @ \cup {Returned(doc)} ELSE @]
  /\ doc' = IF pc' = "returned" THEN doc ELSE <<>>
  /\ deferred' = FALSE
  /\ UNCHANGED <<mod, funcName, p, stack, args, root, curDir>>

\* Parse is left with nothing to restore
LeaveUnrestored ==
  /\ pc \in {"ret", "unwind"}
  /\ ~RestoreRuns
  /\ pc' = IF pc = "ret" THEN "returned" ELSE "panicked"
  /\ hist' = [hist EXCEPT !.docs = IF pc = "ret" THEN @ \cup {Returned(doc)} ELSE @]
  /\ doc' = IF pc' = "returned" THEN doc ELSE <<>>
  /\ deferred' = FALSE
  /\ UNCHANGED <<mod, funcName, p, stack, args, root, cwd, curDir>>

Next ==
  \/ ParseChangeDir
  \/ ParseChangeDirFails
  \/ InitializeLoadFails
  \/ InitializeNotFound
  \/ InitializeAndStart
  \/ ProcessFunctionSeen
  \/ ProcessFunctionNotIndexed
  \/ ProcessFunctionExtract
  \/ ExtractFails
  \/ VisitCallSite
  \/ ReturnFromBody
  \/ ParseToString
  \/ ChangeBack
  \/ LeaveUnrestored

----------------------------------------------------------------------------
(* The modules Spec starts from. *)

ChainFuncs == 0..ChainLen

\* The chain 0 -> 1 -> ... -> ChainLen, and one more call site in the body of
\* caller (none when caller is NoSig), before or after caller's call of the chain.
ChainCalls(caller, callee, first) ==
  [f \in ChainFuncs |->
     LET chain == IF f < ChainLen THEN <<f + 1>> ELSE <<>>
     IN IF f # caller THEN chain
        ELSE IF first THEN <<callee>> \o chain ELSE chain \o <<callee>>]

\* The packages the functions are dealt to in turn; the root directory holds no Go
\* file when P0 is not among them.
Layouts == {<<P0>>, <<P0, P1>>, <<P0, P1, P2>>, <<P1, P2>>, <<P1, P0>>}

ChainModule(layout, lastExternal, caller, callee, first) ==
  [funcs |-> ChainFuncs,
   calls |-> ChainCalls(caller, callee, first),
   body  |-> ChainFuncs,
   pkgOf |-> [f \in ChainFuncs |-> IF lastExternal /\ f = ChainLen
                                   THEN PX ELSE RoundRobin(layout, f)],
   name  |-> [f \in ChainFuncs |-> IF f = 0 THEN "F" ELSE IF f = 1 THEN "G" ELSE "H"],
   gomod |-> GoMod]

Init ==
  /\ \E layout \in Layouts, lastExternal \in BOOLEAN :
       \E caller \in ChainFuncs \cup {NoSig}, callee \in ChainFuncs \cup {NoSig},
          first \in BOOLEAN :
         /\ caller = NoSig => (callee = NoSig /\ first)
         /\ mod = ChainModule(layout, lastExternal, caller, callee, first)
  /\ funcName \in {"F", "G"}
  /\ p = newParser(<<>>)
  /\ root = [sig |-> NoSig, depth |-> 0]
  /\ stack = <<>>
  /\ pc = "idle"
  /\ args = [excludeRoot |-> FALSE, codeOnly |-> FALSE]
  /\ cwd = HomeDir
  /\ curDir = HomeDir
  /\ deferred = FALSE
  /\ doc = <<>>
  /\ hist = NoHist

Spec == Init /\ [][Next]_vars

----------------------------------------------------------------------------
(* What the claims speak of. *)

\* The traversal started by the first processFunction call has returned.
Finished == pc = "walk" /\ stack = <<>>

\* The functions whose source is in the Accumulator.
Accumulated == UNION {Range(p.functions[k]) : k \in DOMAIN p.functions}

\* How many times the source of f was appended to the Accumulator.
Occurrences(f) ==
  Cardinality({<<k, i>> \in UNION {{k} \X (1..Len(p.functions[k])) : k \in DOMAIN p.functions} :
                 p.functions[k][i] = f})

\* The call graph the walk can follow: the call sites in the bodies of indexed
\* functions that resolve to a function.
Callees(f) ==
  IF f \in mod.funcs /\ Indexed(f) /\ f \in mod.body
  THEN Range(mod.calls[f]) \ {NoSig}
  ELSE {}

\* The functions at call-distance at most k from the entry point.
RECURSIVE Within(_)
Within(k) ==
  IF k < 0 THEN {}
  ELSE IF k = 0 THEN {root.sig}
  ELSE LET near == Within(k - 1) IN near \cup UNION {Callees(f) : f \in near}

AtDistance(f, k) == f \in Within(k) /\ f \notin Within(k - 1)

Reachable == Within(Cardinality(mod.funcs))

\* Every function has at most one call site: the call graph from the entry point
\* is a chain entry -> f1 -> f2 -> ...
IsChain == \A f \in mod.funcs : Len(mod.calls[f]) <= 1

\* The remaining depth processFunction was called with when it extracted f.
VisitDepth(f) == CHOOSE d \in {e[2] : e \in {x \in hist.depthAt : x[1] = f}} : TRUE

\* The remaining depth of the processFunction call a stack frame stands for.
FrameVisitDepth(fr) == IF fr.at = 0 THEN fr.depth ELSE fr.depth + 1

\* C1: depth upper bound. With depth budget N, no function at call-distance
\* greater than N from the entry point has its source in the Accumulator, during
\* and after the traversal.
C1_DepthUpperBound ==
  \A f \in mod.funcs : f \notin Within(root.depth) => f \notin Accumulated

\* C1: a finished traversal with budget N >= 1 that left out a function the entry
\* point reaches at a call-distance above N.
C1_Witness ==
  /\ Finished
  /\ root.depth >= 1
  /\ \E f \in Reachable : Indexed(f) /\ f \notin Within(root.depth) /\ f \notin Accumulated

\* C2 as stated: on a chain, the indexed function at call-distance exactly N has its
\* source included and is not expanded; a visited function's call sites are followed
\* exactly when the remaining depth at its visit is > 0; a callee is visited with
\* the caller's remaining depth minus 1.
C2_Original ==
  /\ (Finished /\ IsChain) =>
        \A f \in mod.funcs :
           (Indexed(f) /\ AtDistance(f, root.depth)) =>
              (f \in Accumulated /\ f \notin hist.expanded)
  /\ \A f \in p.seen : f \in hist.expanded <=> (VisitDepth(f) > 0 /\ f \in mod.body)
  /\ \A i \in 1..(Len(stack) - 1) :
        FrameVisitDepth(stack[i + 1]) = VisitDepth(stack[i].sig) - 1

\* C2 amended: on a chain walked with budget N >= 1, the indexed function at
\* call-distance exactly N-1 has its source included and is not expanded, and the
\* function at call-distance N is not included; a visited function's call sites are
\* followed exactly when it has a body and the remaining depth at its visit is > 1;
\* a callee is visited with the caller's remaining depth minus 1.
C2_BoundaryAmended ==
  /\ (Finished /\ IsChain /\ root.depth >= 1) =>
        \A f \in mod.funcs :
           /\ (Indexed(f) /\ AtDistance(f, root.depth - 1)) =>
                 (f \in Accumulated /\ f \notin hist.expanded)
           /\ AtDistance(f, root.depth) => f \notin Accumulated
  /\ \A f \in p.seen : f \in hist.expanded <=> (VisitDepth(f) > 1 /\ f \in mod.body)
  /\ \A i \in 1..(Len(stack) - 1) :
        FrameVisitDepth(stack[i + 1]) = VisitDepth(stack[i].sig) - 1

\* C2: a finished walk of a chain entry -> f1 -> f2 -> f3 with budget 2: f1, at
\* distance N-1, is included and not expanded, f2 is indexed and left out.
C2_Witness ==
  /\ Finished /\ IsChain /\ root.depth = 2
  /\ \E f, g \in mod.funcs :
        /\ AtDistance(f, 1) /\ f \in Accumulated /\ f \notin hist.expanded
        /\ AtDistance(g, 2) /\ Indexed(g) /\ g \notin Accumulated
        /\ g \in Range(mod.calls[f])

\* C3 as stated: after a traversal with budget N, every indexed function whose
\* shortest call-distance from the entry point is less than N has its source in
\* the Accumulator.
C3_ShortestDistanceIncluded ==
  Finished =>
    \A f \in mod.funcs : (Indexed(f) /\ f \in Within(root.depth - 1)) => f \in Accumulated

\* C5: termination. Whatever the call graph (self-recursion and mutual recursion
\* included) and the budget, the traversal eventually finishes: the stack empties.
C5_Terminates == <>Finished

\* C5: a finished traversal that went through a mutual recursion (a calls b, b
\* calls a, both expanded) and through a direct self-recursion.
C5_Witness ==
  /\ Finished
  /\ \E a, b \in hist.expanded :
        /\ a # b /\ b \in Callees(a) /\ a \in Callees(b)
  /\ \E c \in hist.expanded : c \in Callees(c)

\* The diamond: the entry point calls b and c, which both call d.
IsDiamond(b, c, d) ==
  /\ Cardinality({root.sig, b, c, d}) = 4
  /\ {b, c} \subseteq Callees(root.sig)
  /\ d \in Callees(b) /\ d \in Callees(c)
  /\ Indexed(d)

\* C6: exactly-once extraction. At every moment the source of a signature is in the
\* Accumulator once if it was processed and not at all otherwise; after a walk of a
\* diamond with budget >= 3, d's source is there exactly once, and after a walk of
\* a cycle entry <-> b with budget >= 2, the entry's and b's are there exactly once.
C6_ExactlyOnce ==
  /\ \A f \in mod.funcs : Occurrences(f) = IF f \in p.seen THEN 1 ELSE 0
  /\ Finished =>
       \A b, c, d \in mod.funcs :
          (IsDiamond(b, c, d) /\ root.depth >= 3) => Occurrences(d) = 1
  /\ Finished =>
       \A b \in mod.funcs :
          (b # root.sig /\ b \in Callees(root.sig) /\ root.sig \in Callees(b)
             /\ root.depth >= 2)
          => (Occurrences(root.sig) = 1 /\ Occurrences(b) = 1)

\* C6: a finished walk of a diamond in which d was reached from b and from c.
C6_Witness ==
  /\ Finished
  /\ root.depth >= 3
  /\ \E b, c, d \in mod.funcs :
        IsDiamond(b, c, d) /\ {b, c} \subseteq hist.expanded /\ Occurrences(d) = 1

\* Parse has computed the document it returns.
Produced == pc \in {"ret", "returned"}

\* The functions whose source is in a document.
DocFuncs(d) == UNION {Range(d[i].src) : i \in 1..Len(d)}

\* The functions of the first package of pkgOrder, the entry point's.
RootPkgFuncs ==
  IF p.pkgOrder = <<>> THEN {}
  ELSE {f \in mod.funcs : mod.pkgOf[f] = p.pkgOrder[1]}

\* C4 as stated: the non-entry functions in the document of Parse with
\* excludeRoot=true (budget 6) are those in the document of Parse with
\* excludeRoot=false (budget 5), for the same module and entry point.
C4_SameNonEntryFunctions ==
  \A a, b \in hist.docs :
    (a.excludeRoot /\ ~b.excludeRoot) =>
       DocFuncs(a.doc) \ {root.sig} = DocFuncs(b.doc) \ {root.sig}

\* C4 amended: with excludeRoot=true the document holds exactly the functions the
\* budget-6 walk processed outside the entry point's package (the whole first
\* package is left out, not the entry point alone), all at call-distance 1 to 5;
\* with excludeRoot=false it holds exactly the functions the budget-5 walk
\* processed, all at call-distance at most 4. The two sets of non-entry functions
\* need not be the same.
C4_DocumentFunctionsAmended ==
  Produced =>
    IF args.excludeRoot
    THEN /\ DocFuncs(doc) = p.seen \ RootPkgFuncs
         /\ DocFuncs(doc) \subseteq Within(ExcludedRootDepth - 1) \ {root.sig}
    ELSE /\ DocFuncs(doc) = p.seen
         /\ DocFuncs(doc) \subseteq Within(IncludedRootDepth - 1)

\* C4: both documents were returned; the one of excludeRoot=true holds a function
\* at call-distance 5 that the other lacks, and lacks a non-entry function of the
\* entry point's package that the other holds.
C4_Witness ==
  /\ pc = "returned"
  /\ \E a, b \in hist.docs :
        /\ a.excludeRoot /\ ~b.excludeRoot
        /\ \E f \in DocFuncs(a.doc) \ DocFuncs(b.doc) : AtDistance(f, ExcludedRootDepth - 1)
        /\ \E g \in DocFuncs(b.doc) \ DocFuncs(a.doc) : g # root.sig

IsHeader(piece) == piece.kind \in {"comment", "line"}

IsBlock(piece) == piece.kind \in {"code", "fenced"}

\* The names in the package headers of a document, in order.
RECURSIVE HeaderNames(_)
HeaderNames(d) ==
  IF d = <<>> THEN <<>>
  ELSE (IF IsHeader(Head(d)) THEN <<Head(d).name>> ELSE <<>>) \o HeaderNames(Tail(d))

\* The function blocks of a document, in order.
RECURSIVE Blocks(_)
Blocks(d) ==
  IF d = <<>> THEN <<>>
  ELSE (IF IsBlock(Head(d)) THEN <<Head(d).src>> ELSE <<>>) \o Blocks(Tail(d))

\* C7: header suppression. For pkgOrder [P0, P1, P2]: with excludeRoot=false the
\* document holds the three blocks, no header for P0 and a header right before each
\* of P1's and P2's blocks; with excludeRoot=true it holds no block for P0, P1's
\* block without a header and P2's block right after P2's header. Under codeOnly the
\* headers are comment lines and the blocks bare; otherwise plain lines and fenced.
C7_HeaderSuppression ==
  (Produced /\ Len(p.pkgOrder) = 3) =>
    LET o == p.pkgOrder
        src(i) == p.functions[o[i]]
    IN /\ IF args.excludeRoot
          THEN /\ Blocks(doc) = <<src(2), src(3)>>
               /\ HeaderNames(doc) = <<PkgName(o[3])>>
               /\ IsBlock(doc[1])
          ELSE /\ Blocks(doc) = <<src(1), src(2), src(3)>>
               /\ HeaderNames(doc) = <<PkgName(o[2]), PkgName(o[3])>>
               /\ IsBlock(doc[1])
       /\ \A i \in 1..Len(doc) :
            IsHeader(doc[i]) =>
               /\ doc[i].kind = IF args.codeOnly THEN "comment" ELSE "line"
               /\ doc[i + 1] = NewLine
               /\ IsBlock(doc[i + 2])
               /\ \E k \in 2..3 : doc[i].name = PkgName(o[k]) /\ doc[i + 2].src = src(k)
       /\ \A i \in 1..Len(doc) :
            IsBlock(doc[i]) => doc[i].kind = IF args.codeOnly THEN "code" ELSE "fenced"

\* C7: a document of three visited packages rendered with excludeRoot=true.
C7_Witness ==
  /\ Produced /\ Len(p.pkgOrder) = 3
  /\ args.excludeRoot /\ args.codeOnly
  /\ HeaderNames(doc) = <<PkgName(p.pkgOrder[3])>>
  /\ Len(Blocks(doc)) = 2

\* The primary package: the first path of go.mod.
PrimaryPkg == parseGoModFile[1]

\* C8 as stated: when no function named funcName is declared in the primary
\* package, Parse never returns normally.
C8_MissingEntryNeverReturns ==
  (~\E f \in mod.funcs : mod.pkgOf[f] = PrimaryPkg /\ mod.name[f] = funcName)
     => pc # "returned"

\* C9: working-directory restoration. When Parse is left, by a return or by a
\* panic, after changeDir changed the directory, changeBack has run; and when its
\* Chdir succeeded the working directory is the one at the call.
C9_DirectoryRestored ==
  (pc \in {"returned", "panicked"} /\ hist.changed) =>
     /\ hist.restore # "none"
     /\ hist.restore = "ok" => cwd = hist.callDir

\* C9: Parse panicked in the walk, reading a source file, and the working directory
\* is back to the one at the call.
C9_Witness ==
  /\ pc = "panicked"
  /\ hist.err = "SourceReadFailure"
  /\ hist.changed /\ hist.restore = "ok"
  /\ cwd = hist.callDir /\ cwd # ModDir

\* The packages of the functions in order, each at its first occurrence only.
RECURSIVE FirstVisited(_)
FirstVisited(order) ==
  IF order = <<>> THEN <<>>
  ELSE LET before == FirstVisited(SubSeq(order, 1, Len(order) - 1))
           pkg == mod.pkgOf[Last(order)]
       IN IF pkg \in Range(before) THEN before ELSE Append(before, pkg)

C10_State ==
  /\ \A i, j \in 1..Len(p.pkgOrder) : p.pkgOrder[i] = p.pkgOrder[j] => i = j
  /\ Range(p.pkgOrder) = DOMAIN p.functions
  /\ p.pkgOrder = FirstVisited(hist.order)
  /\ p.pkgOrder # <<>> => p.pkgOrder[1] = mod.pkgOf[root.sig]

\* C10: the PackageOrder invariant. At every moment pkgOrder has no duplicate,
\* holds exactly the packages with an entry in functions, in the order in which
\* each first had a function processed, the entry point's package first; and a
\* step of the walk changes pkgOrder only by appending to it.
C10_PackageOrder ==
  /\ []C10_State
  /\ [][pc = "walk" => IsPrefix(p.pkgOrder, p'.pkgOrder)]_vars

\* C10: a finished walk through three packages, one of them entered again for a
\* second function after another package was registered.
C10_Witness ==
  /\ Finished
  /\ Len(p.pkgOrder) = 3
  /\ \E i, j, k \in 1..Len(hist.order) :
        /\ i < j /\ j < k
        /\ mod.pkgOf[hist.order[i]] = mod.pkgOf[hist.order[k]]
        /\ mod.pkgOf[hist.order[i]] # mod.pkgOf[hist.order[j]]

====
